---- MODULE Spec2Model ----
(***************************************************************************)
(* Reverse-proxy worker (caliecode/cloudflare-proxy).                      *)
(*                                                                         *)
(* The repository holds three handler variants:                            *)
(*   "fetch"         src/src/index.ts   lines   1-123  (default.fetch)     *)
(*   "handleRequest" src/src/index.ts   lines 125-266  (handleRequest)     *)
(*   "template"      src/unnamed/part_000              (default.fetch)     *)
(* modifyCookie is textually the same in all three.                        *)
(*                                                                         *)
(* A JavaScript string is a sequence of tokens (a token is a run of        *)
(* characters that no operation of the program cuts: a word, ";", " ",     *)
(* "=", "/", "?").  Concatenation is \o, split/trim/join/startsWith/       *)
(* replace work on tokens as the JavaScript methods work on characters.    *)
(***************************************************************************)
EXTENDS Integers, Sequences, FiniteSets, TLC

VARIABLES
    entry,      \* the handler variant that serves the request
    pc,         \* position of the handler
    request,    \* the inbound Request
    calls,      \* the Requests the handler passed to fetch(), in order
    route,      \* the branch the router took
    followed,   \* the redirect answers the fetch client consumed by following them
    fetched,    \* what fetch() resolved to for the handler (a response, or rejected)
    response,   \* the Response the handler returned
    cookieArg,  \* modifyCookie called directly: its arguments
    cookieRet   \* ... and its return value

vars == <<entry, pc, request, calls, route, followed, fetched, response, cookieArg, cookieRet>>

-----------------------------------------------------------------------------
(* Bounds *)

MaxAttrs == 3        \* attribute segments of a cookie passed to modifyCookie directly
MaxCookies == 2      \* Set-Cookie values of one upstream response
MaxHops == 1         \* redirects a following fetch client takes before a final answer

-----------------------------------------------------------------------------
(* JavaScript strings as token sequences *)

Null == <<"#null">>
NotYet == <<"#pending">>

\* String.prototype.toLowerCase, token by token.
LowerTok(t) ==
    CASE t \in {"Domain", "DOMAIN"} -> "domain"
      [] t \in {"SameSite", "SAMESITE"} -> "samesite"
      [] t \in {"Secure", "SECURE"} -> "secure"
      [] t = "Path" -> "path"
      [] t = "HttpOnly" -> "httponly"
      [] t = "Expires" -> "expires"
      [] t = "Lax" -> "lax"
      [] t = "Strict" -> "strict"
      [] t = "None" -> "none"
      [] t = "Wed" -> "wed"
      [] t = "SID" -> "sid"
      [] OTHER -> t

toLowerCase(s) == [i \in 1..Len(s) |-> LowerTok(s[i])]

startsWith(s, p) == Len(s) >= Len(p) /\ SubSeq(s, 1, Len(p)) = p

\* String.prototype.trim.
RECURSIVE trimStart(_)
trimStart(s) == IF s # <<>> /\ Head(s) = " " THEN trimStart(Tail(s)) ELSE s

RECURSIVE trimEnd(_)
trimEnd(s) ==
    IF s # <<>> /\ s[Len(s)] = " " THEN trimEnd(SubSeq(s, 1, Len(s) - 1)) ELSE s

trim(s) == trimEnd(trimStart(s))

\* String.prototype.split(sep) for a one-token separator: always at least one part.
RECURSIVE splitFrom(_, _, _, _)
splitFrom(s, sep, i, cur) ==
    IF i > Len(s) THEN <<cur>>
    ELSE IF s[i] = sep THEN <<cur>> \o splitFrom(s, sep, i + 1, <<>>)
    ELSE splitFrom(s, sep, i + 1, Append(cur, s[i]))

split(s, sep) == splitFrom(s, sep, 1, <<>>)

\* Array.prototype.join(sep).
RECURSIVE join(_, _)
join(parts, sep) ==
    IF parts = <<>> THEN <<>>
    ELSE IF Len(parts) = 1 THEN parts[1]
    ELSE parts[1] \o sep \o join(Tail(parts), sep)

\* String.prototype.replace(pattern, by) with a string pattern: first occurrence only.
RECURSIVE replaceFrom(_, _, _, _)
replaceFrom(s, pat, by, i) ==
    IF i + Len(pat) - 1 > Len(s) THEN s
    ELSE IF SubSeq(s, i, i + Len(pat) - 1) = pat
         THEN SubSeq(s, 1, i - 1) \o by \o SubSeq(s, i + Len(pat), Len(s))
    ELSE replaceFrom(s, pat, by, i + 1)

replace(s, pat, by) == replaceFrom(s, pat, by, 1)

-----------------------------------------------------------------------------
(* URL objects: new URL(request.url) *)

\* URL.hostname: the host without the port.
hostname(url) == url.hostname

\* URL.host: the host with the port, when the URL has one.
host(url) == IF url.port = "" THEN <<url.hostname>> ELSE <<url.hostname, ":", url.port>>

\* URL.origin: scheme, "://", host.
origin(url) == <<url.protocol, "://">> \o host(url)

\* URL.search: "?" and the query, or "" when the query is empty.
search(url) == IF url.query = <<>> THEN <<>> ELSE <<"?">> \o url.query

-----------------------------------------------------------------------------
(* modifyCookie *)

\* (mutant) url.host in the place of url.hostname.
DomainPartWithPort(url) == <<"Domain", "=">> \o host(url)

\* `Domain=${url.hostname}`
DomainPart(url) == <<"Domain", "=", hostname(url)>>
SameSitePart == <<"SameSite", "=", "None">>
SecurePart == <<"Secure">>

\* (mutant) the loop keeps the lower-cased copy of a segment it does not recognise.
LoopBodyKeepsLowered(st, raw, url) ==
    LET part == toLowerCase(raw) IN
    IF startsWith(part, <<"domain", "=">>)
    THEN [st EXCEPT !.parts = Append(@, <<"Domain", "=", hostname(url)>>), !.hasDomain = TRUE]
    ELSE IF startsWith(part, <<"samesite", "=">>)
    THEN [st EXCEPT !.parts = Append(@, <<"SameSite", "=", "None">>), !.hasSameSite = TRUE]
    ELSE IF part = <<"secure">>
    THEN [st EXCEPT !.parts = Append(@, <<"Secure">>), !.hasSecure = TRUE]
    ELSE [st EXCEPT !.parts = Append(@, part)]

\* One turn of the for loop: st = [parts, hasDomain, hasSameSite, hasSecure].
LoopBody(st, raw, url) ==
    LET part == toLowerCase(raw) IN
    IF startsWith(part, <<"domain", "=">>)
    THEN [st EXCEPT !.parts = Append(@, DomainPart(url)), !.hasDomain = TRUE]
    ELSE IF startsWith(part, <<"samesite", "=">>)
    THEN [st EXCEPT !.parts = Append(@, SameSitePart), !.hasSameSite = TRUE]
    ELSE IF part = <<"secure">>
    THEN [st EXCEPT !.parts = Append(@, SecurePart), !.hasSecure = TRUE]
    ELSE [st EXCEPT !.parts = Append(@, raw)]

RECURSIVE Loop(_, _, _, _)
Loop(st, cp, i, url) ==
    IF i > Len(cp) THEN st
    ELSE Loop(LoopBody(st, cp[i], url), cp, i + 1, url)

\* (mutant) the Secure attribute is appended whether or not one was seen.
AddMissingAlwaysSecure(st, url) ==
    st.parts
      \o (IF ~st.hasDomain THEN <<<<"Domain", "=", hostname(url)>>>> ELSE <<>>)
      \o (IF ~st.hasSameSite THEN <<<<"SameSite", "=", "None">>>> ELSE <<>>)
      \o <<<<"Secure">>>>

\* The three "add missing attributes" ifs.
AddMissing(st, url) ==
    st.parts
      \o (IF ~st.hasDomain THEN <<DomainPart(url)>> ELSE <<>>)
      \o (IF ~st.hasSameSite THEN <<SameSitePart>> ELSE <<>>)
      \o (IF ~st.hasSecure THEN <<SecurePart>> ELSE <<>>)

cookieParts(cookie) == LET raw == split(cookie, ";") IN [i \in 1..Len(raw) |-> trim(raw[i])]

modifyCookie(cookie, url) ==
    IF cookie = <<>> THEN Null
    ELSE LET cp == cookieParts(cookie)
             st0 == [parts |-> <<cp[1]>>, hasDomain |-> FALSE,
                     hasSameSite |-> FALSE, hasSecure |-> FALSE]
         IN join(AddMissing(Loop(st0, cp, 2, url), url), <<";", " ">>)

-----------------------------------------------------------------------------
(* Inputs of modifyCookie called directly *)

MainParts == { <<"auth", "=", "abc">>, <<"SID", "=", "x">> }

RawAttrs ==
    { <<"Domain", "=", "backend.example">>, <<"DOMAIN", "=", "other.example">>,
      <<"SameSite", "=", "Lax">>, <<"samesite", "=", "Strict">>,
      <<"Secure">>, <<"SECURE">>, <<"Secure", "=", "1">>,
      <<"Path", "=", "/">>, <<"HttpOnly">>, <<"Expires", "=", "Wed">> }

Separators == { <<";", " ">>, <<" ", ";">> }

AttrLists == UNION { [1..n -> RawAttrs] : n \in 0..MaxAttrs }

CookieInputs ==
    { <<>> } \cup
    { join(<<m>> \o a, sep) : m \in MainParts, a \in AttrLists, sep \in Separators }

CookieUrls ==
    { [protocol |-> "http", hostname |-> "example.com", port |-> "",
       pathname |-> <<"/", "fly-api", "/", "login">>, query |-> <<>>],
      [protocol |-> "https", hostname |-> "app.test", port |-> "8787",
       pathname |-> <<"/", "fly-api", "/", "login">>, query |-> <<>>] }

IdleRequest ==
    [method |-> "GET", url |-> CHOOSE u \in CookieUrls : u.port = "",
     headers |-> <<>>, body |-> "null"]

HandlerIdle ==
    /\ entry = "none"
    /\ pc = "idle"
    /\ request = IdleRequest
    /\ calls = <<>>
    /\ route = "none"
    /\ followed = <<>>
    /\ fetched = [kind |-> "none"]
    /\ response = [kind |-> "none"]

InitCookie ==
    /\ HandlerIdle
    /\ cookieArg \in [cookie : CookieInputs, url : CookieUrls]
    /\ cookieRet = NotYet

CallModifyCookie ==
    /\ cookieRet = NotYet
    /\ cookieRet' = modifyCookie(cookieArg.cookie, cookieArg.url)
    /\ UNCHANGED <<entry, pc, request, calls, route, followed, fetched, response, cookieArg>>

NextCookie == CallModifyCookie

SpecCookie == InitCookie /\ [][NextCookie]_vars

-----------------------------------------------------------------------------
(* Properties of modifyCookie (checked under SpecCookie) *)

Returned == cookieRet # NotYet /\ cookieRet # Null

\* The segments of the input and of the output, as a cookie parser cuts them.
InSegs == cookieParts(cookieArg.cookie)
OutSegs == cookieParts(cookieRet)
InAttrs == Tail(InSegs)
OutAttrs == Tail(OutSegs)

IsDomainSeg(seg) == startsWith(toLowerCase(seg), <<"domain", "=">>)
IsSameSiteSeg(seg) == startsWith(toLowerCase(seg), <<"samesite", "=">>)
IsSecureSeg(seg) == toLowerCase(seg) = <<"secure">>
IsRecognised(seg) == IsDomainSeg(seg) \/ IsSameSiteSeg(seg) \/ IsSecureSeg(seg)
IsOther(seg) == ~IsRecognised(seg)

NumDomain(segs) == Len(SelectSeq(segs, IsDomainSeg))
NumSameSite(segs) == Len(SelectSeq(segs, IsSameSiteSeg))
NumSecure(segs) == Len(SelectSeq(segs, IsSecureSeg))
IsSameSiteNone(seg) == seg = <<"SameSite", "=", "None">>
NumSameSiteNone(segs) == Len(SelectSeq(segs, IsSameSiteNone))

AtLeastOne(n) == IF n = 0 THEN 1 ELSE n

\* C1 as stated: whatever the input, the rewritten cookie has exactly one Domain
\* attribute, exactly one SameSite=None attribute and exactly one Secure attribute.
C1_ExactlyOneOfEach ==
    Returned =>
        /\ NumDomain(OutAttrs) = 1
        /\ NumSameSiteNone(OutAttrs) = 1
        /\ NumSecure(OutAttrs) = 1

\* C1 amended: the rewritten cookie has at least one Domain, one SameSite=None and one
\* Secure attribute; of each kind it has as many as the input had segments of that
\* kind (Domain=..., SameSite=..., bare Secure), and one when the input had none; so
\* exactly one of each whenever the input had at most one of each.
C1_OnePerInputSegmentAtLeastOne ==
    Returned =>
        /\ NumDomain(OutAttrs) = AtLeastOne(NumDomain(InAttrs))
        /\ NumSameSiteNone(OutAttrs) = AtLeastOne(NumSameSite(InAttrs))
        /\ NumSameSite(OutAttrs) = NumSameSiteNone(OutAttrs)
        /\ NumSecure(OutAttrs) = AtLeastOne(NumSecure(InAttrs))

\* Witness of C1: a cookie with two Domain segments, no SameSite segment and one
\* Secure segment has been rewritten.
C1_Witness ==
    /\ Returned
    /\ NumDomain(InAttrs) = 2 /\ NumDomain(OutAttrs) = 2
    /\ NumSameSite(InAttrs) = 0 /\ NumSameSiteNone(OutAttrs) = 1
    /\ NumSecure(InAttrs) = 1 /\ NumSecure(OutAttrs) = 1

C9_UnrecognisedUntouched ==
    Returned =>
        /\ OutSegs[1] = InSegs[1]
        /\ SelectSeq(OutAttrs, IsOther) = SelectSeq(InAttrs, IsOther)

\* Witness of C9: a cookie with HttpOnly, then a replaced segment, then Path=/ has
\* been rewritten.
C9_Witness ==
    /\ Returned
    /\ Len(InAttrs) = 3
    /\ InAttrs[1] = <<"HttpOnly">>
    /\ IsRecognised(InAttrs[2])
    /\ InAttrs[3] = <<"Path", "=", "/">>

-----------------------------------------------------------------------------
(* Headers objects: a map from the lower-cased name to the list of its values *)

\* Header names are case-insensitive: Headers keeps them lower-cased.
HeaderName(n) ==
    CASE n = "Set-Cookie" -> "set-cookie"
      [] n = "Location" -> "location"
      [] n = "Access-Control-Allow-Origin" -> "access-control-allow-origin"
      [] n = "Access-Control-Allow-Credentials" -> "access-control-allow-credentials"
      [] n = "Access-Control-Allow-Methods" -> "access-control-allow-methods"
      [] n = "Access-Control-Allow-Headers" -> "access-control-allow-headers"
      [] n = "Content-Type" -> "content-type"
      [] n = "Authorization" -> "authorization"
      [] n = "Cookie" -> "cookie"
      [] n = "Vary" -> "vary"
      [] OTHER -> n

NoHeaders == <<>>

HeadersHas(h, n) == HeaderName(n) \in DOMAIN h

HeadersGetAll(h, n) == IF HeadersHas(h, n) THEN h[HeaderName(n)] ELSE <<>>

\* Headers.get: the values of the name joined by ", ".
HeadersGet(h, n) == join(HeadersGetAll(h, n), <<", ">>)

HeadersSet(h, n, v) ==
    [k \in DOMAIN h \cup {HeaderName(n)} |-> IF k = HeaderName(n) THEN <<v>> ELSE h[k]]

\* (mutant) append implemented as set: the last value replaces the earlier ones.
HeadersAppendOverwrites(h, n, v) ==
    [k \in DOMAIN h \cup {HeaderName(n)} |-> IF k = HeaderName(n) THEN <<v>> ELSE h[k]]

HeadersAppend(h, n, v) ==
    [k \in DOMAIN h \cup {HeaderName(n)} |->
        IF k = HeaderName(n) THEN HeadersGetAll(h, n) \o <<v>> ELSE h[k]]

\* new Headers(init): a copy with the same names and values.
NewHeaders(init) == [k \in DOMAIN init |-> init[k]]

-----------------------------------------------------------------------------
(* The three handler variants and their hard-coded configuration *)

Entries == {"fetch", "handleRequest", "template"}

\* The argument of url.pathname.startsWith(...).
ProxyPrefix(e) ==
    IF e = "template" THEN <<"/", "api", "/">> ELSE <<"/", "fly-api", "/">>

BackendOrigin(e) ==
    IF e = "template" THEN <<"https://your-app-name.fly.dev">>
    ELSE <<"https://laclipasa-backend.fly.dev">>

FallbackBody(e) ==
    IF e = "template"
    THEN "This is a proxy worker. API requests should be sent to /api/..."
    ELSE "This is a proxy worker. API requests should be sent to /fly-api/..."

\* The redirect option of the Request handed to fetch().
RedirectMode(e) == IF e = "handleRequest" THEN "manual" ELSE "follow"

\* The path of the backend URL.
BackendPath(e, url) ==
    IF e = "handleRequest" THEN replace(url.pathname, <<"/", "fly-api">>, <<>>)
    ELSE url.pathname

backendUrl(e, url) == BackendOrigin(e) \o BackendPath(e, url) \o search(url)

\* (mutant) the upstream request is built without the inbound headers.
modifiedRequestWithoutHeaders(e, req) ==
    [url |-> backendUrl(e, req.url), method |-> req.method,
     headers |-> NoHeaders, body |-> req.body, redirect |-> RedirectMode(e)]

\* new Request(backendUrl, {method, headers, body, redirect}).
modifiedRequest(e, req) ==
    [url |-> backendUrl(e, req.url), method |-> req.method,
     headers |-> NewHeaders(req.headers), body |-> req.body,
     redirect |-> RedirectMode(e)]

\* Request.url of the inbound request, as fetch(request) sends it on.
href(url) == origin(url) \o url.pathname \o search(url)

-----------------------------------------------------------------------------
(* Rebuilding the final response *)

\* response.headers.forEach(...) skipping set-cookie: each name once, with its values
\* joined, set on the new response.
RECURSIVE CopyHeaders(_, _, _)
CopyHeaders(new, old, names) ==
    IF names = {} THEN new
    ELSE LET k == CHOOSE x \in names : TRUE
             next == IF k # "set-cookie"
                     THEN HeadersSet(new, k, join(old[k], <<", ">>))
                     ELSE new
         IN CopyHeaders(next, old, names \ {k})

\* setCookieHeaders.forEach(...): each value rewritten alone, appended when truthy.
RECURSIVE AppendCookies(_, _, _, _)
AppendCookies(new, cookies, i, url) ==
    IF i > Len(cookies) THEN new
    ELSE LET modifiedCookie == modifyCookie(cookies[i], url)
             next == IF modifiedCookie # Null /\ modifiedCookie # <<>>
                     THEN HeadersAppend(new, "Set-Cookie", modifiedCookie)
                     ELSE new
         IN AppendCookies(next, cookies, i + 1, url)

AllowMethods == <<"GET, POST, PUT, DELETE, OPTIONS">>
AllowHeaders == <<"Content-Type, Authorization">>

\* (mutant) the allowed origin is a wildcard instead of the request's origin.
AddCorsWildcard(h, url) ==
    HeadersSet(HeadersSet(HeadersSet(HeadersSet(h,
        "Access-Control-Allow-Origin", <<"*">>),
        "Access-Control-Allow-Credentials", <<"true">>),
        "Access-Control-Allow-Methods", AllowMethods),
        "Access-Control-Allow-Headers", AllowHeaders)

\* The four newResponse.headers.set('Access-Control-...') calls.
AddCors(h, url) ==
    HeadersSet(HeadersSet(HeadersSet(HeadersSet(h,
        "Access-Control-Allow-Origin", origin(url)),
        "Access-Control-Allow-Credentials", <<"true">>),
        "Access-Control-Allow-Methods", AllowMethods),
        "Access-Control-Allow-Headers", AllowHeaders)

\* The response handleApiRequest builds from a final upstream response.
newResponse(res, req) ==
    LET copied == CopyHeaders(NoHeaders, res.headers, DOMAIN res.headers)
        cookies == AppendCookies(copied, HeadersGetAll(res.headers, "Set-Cookie"), 1, req.url)
    IN [kind |-> "response", status |-> res.status, statusText |-> res.statusText,
        headers |-> AddCors(cookies, req.url), body |-> res.body]

\* (mutant) the redirect test looks at the status alone, not at the Location header.
IsRedirectByStatusAlone(res) == res.status >= 300 /\ res.status < 400

\* The test of the redirect branch.
IsRedirect(res) ==
    res.status >= 300 /\ res.status < 400 /\ HeadersHas(res.headers, "Location")

\* new Response(null, {status, statusText, headers: response.headers}).
redirectResponse(res) ==
    [kind |-> "response", status |-> res.status, statusText |-> res.statusText,
     headers |-> NewHeaders(res.headers), body |-> "null"]

\* new Response('This is a proxy worker...'): 200, no status text, a text body.
fallbackResponse(e) ==
    [kind |-> "response", status |-> 200, statusText |-> "",
     headers |-> [k \in {"content-type"} |-> << <<"text/plain;charset=UTF-8">> >>],
     body |-> FallbackBody(e)]

-----------------------------------------------------------------------------
(* Inbound requests and upstream answers *)

RequestOrigins ==
    { [protocol |-> "http", hostname |-> "example.com", port |-> ""],
      [protocol |-> "https", hostname |-> "app.test", port |-> "8787"] }

RequestPaths ==
    { <<"/">>,
      <<"/", "fly-api">>,
      <<"/", "fly-api", "/">>,
      <<"/", "fly-api", "/", "users">>,
      <<"/", "fly-api", "/", "v1", "/", "fly-api", "/", "x">>,
      <<"/", "api", "/", "users">> }

RequestQueries == { <<>>, <<"page=2">> }

RequestUrls ==
    { [protocol |-> o.protocol, hostname |-> o.hostname, port |-> o.port,
       pathname |-> p, query |-> q] :
         o \in RequestOrigins, p \in RequestPaths, q \in RequestQueries }

CredentialHeaders ==
    [k \in {"content-type", "authorization", "cookie"} |->
        CASE k = "content-type" -> << <<"application/json">> >>
          [] k = "authorization" -> << <<"Bearer token123">> >>
          [] k = "cookie" -> << <<"auth_token=abc123">> >>]

\* method, headers and body go together: a bare GET, a POST with credentials and a
\* body, a preflight OPTIONS.
RequestShapes ==
    { [method |-> "GET", headers |-> NoHeaders, body |-> "null"],
      [method |-> "POST", headers |-> CredentialHeaders, body |-> "{test:true}"],
      [method |-> "OPTIONS", headers |-> NoHeaders, body |-> "null"] }

Requests ==
    { [method |-> sh.method, url |-> u, headers |-> sh.headers, body |-> sh.body] :
         sh \in RequestShapes, u \in RequestUrls }

UpstreamCookies ==
    { <<"auth_token", "=", "abc123", ";", " ", "Path", "=", "/", ";", " ",
        "Domain", "=", "laclipasa-backend.fly.dev", ";", " ", "SameSite", "=", "Lax">>,
      <<"session", "=", "xyz789", ";", " ", "Path", "=", "/">>,
      <<>> }

CookieLists == UNION { [1..n -> UpstreamCookies] : n \in 0..MaxCookies }

Statuses == {200, 302, 500}

StatusText(st) ==
    CASE st = 200 -> "OK" [] st = 302 -> "Found" [] st = 500 -> "Internal Server Error"

LocationValue == <<"https://x/y">>

UpstreamHeaders(loc, cors, cks) ==
    LET names == {"content-type"}
                   \cup (IF loc THEN {"location"} ELSE {})
                   \cup (IF cors THEN {"access-control-allow-origin", "vary"} ELSE {})
                   \cup (IF cks # <<>> THEN {"set-cookie"} ELSE {})
    IN [k \in names |->
          CASE k = "content-type" -> << <<"application/json">> >>
            [] k = "location" -> << LocationValue >>
            [] k = "access-control-allow-origin" -> << <<"https://laclipasa-backend.fly.dev">> >>
            [] k = "vary" -> << <<"Origin">>, <<"Accept">> >>
            [] k = "set-cookie" -> cks]

UpstreamResponses ==
    { [status |-> st, statusText |-> StatusText(st),
       headers |-> UpstreamHeaders(loc, cors, cks),
       body |-> IF st = 302 THEN "moved" ELSE "payload"] :
         st \in Statuses, loc \in BOOLEAN, cors \in BOOLEAN, cks \in CookieLists }

-----------------------------------------------------------------------------
(* The handler, step by step *)

Init ==
    /\ HandlerIdle
    /\ cookieArg = [cookie |-> <<>>, url |-> IdleRequest.url]
    /\ cookieRet = NotYet

Matches == startsWith(request.url.pathname, ProxyPrefix(entry))

\* The runtime hands a request to one of the exported handlers.
Receive(e, req) ==
    /\ pc = "idle"
    /\ entry' = e
    /\ request' = req
    /\ pc' = "routing"
    /\ UNCHANGED <<calls, route, followed, fetched, response, cookieArg, cookieRet>>

\* The path matches: handleApiRequest builds the upstream request and calls fetch.
RouteApi ==
    /\ pc = "routing"
    /\ Matches
    /\ calls' = Append(calls, modifiedRequest(entry, request))
    /\ route' = "api"
    /\ pc' = "fetching"
    /\ UNCHANGED <<entry, request, followed, fetched, response, cookieArg, cookieRet>>

\* The path does not match, default.fetch: the fixed text.
RouteStatic ==
    /\ pc = "routing"
    /\ ~Matches
    /\ entry # "handleRequest"
    /\ response' = fallbackResponse(entry)
    /\ route' = "static"
    /\ pc' = "done"
    /\ UNCHANGED <<entry, request, calls, followed, fetched, cookieArg, cookieRet>>

\* The path does not match, handleRequest: return fetch(request).
RouteFetchThrough ==
    /\ pc = "routing"
    /\ ~Matches
    /\ entry = "handleRequest"
    /\ calls' = Append(calls,
            [url |-> href(request.url), method |-> request.method,
             headers |-> request.headers, body |-> request.body,
             redirect |-> "manual"])
    /\ route' = "through"
    /\ pc' = "fetching"
    /\ UNCHANGED <<entry, request, followed, fetched, response, cookieArg, cookieRet>>

\* redirect: 'follow': the fetch client consumes a redirect answer and asks again.
ClientFollows(res) ==
    /\ pc = "fetching"
    /\ calls[Len(calls)].redirect = "follow"
    /\ IsRedirect(res)
    /\ Len(followed) < MaxHops
    /\ followed' = Append(followed,
            [status |-> res.status, location |-> HeadersGet(res.headers, "Location")])
    /\ UNCHANGED <<entry, pc, request, calls, route, fetched, response, cookieArg, cookieRet>>

\* fetch() resolves with an upstream answer (a following client never hands over a
\* redirect answer that has a Location).
FetchResolves(res) ==
    /\ pc = "fetching"
    /\ calls[Len(calls)].redirect = "follow" => ~IsRedirect(res)
    /\ fetched' = [kind |-> "response", res |-> res]
    /\ pc' = "fetched"
    /\ UNCHANGED <<entry, request, calls, route, followed, response, cookieArg, cookieRet>>

\* fetch() rejects (DNS, connect, timeout): nothing catches it, the handler's promise
\* rejects.
FetchRejects ==
    /\ pc = "fetching"
    /\ fetched' = [kind |-> "rejected"]
    /\ response' = [kind |-> "exception"]
    /\ pc' = "done"
    /\ UNCHANGED <<entry, request, calls, route, followed, cookieArg, cookieRet>>

TakesRedirectBranch == entry = "handleRequest" /\ IsRedirect(fetched.res)

\* handleRequest's handleApiRequest, a 3xx with a Location: passed through.
ReturnRedirect ==
    /\ pc = "fetched"
    /\ route = "api"
    /\ TakesRedirectBranch
    /\ response' = redirectResponse(fetched.res)
    /\ pc' = "done"
    /\ UNCHANGED <<entry, request, calls, route, followed, fetched, cookieArg, cookieRet>>

\* The rest of handleApiRequest: body read, headers copied, cookies rewritten, CORS set.
ReturnRebuilt ==
    /\ pc = "fetched"
    /\ route = "api"
    /\ ~TakesRedirectBranch
    /\ response' = newResponse(fetched.res, request)
    /\ pc' = "done"
    /\ UNCHANGED <<entry, request, calls, route, followed, fetched, cookieArg, cookieRet>>

\* handleRequest's non-API branch returns what fetch(request) resolved to.
ReturnThrough ==
    /\ pc = "fetched"
    /\ route = "through"
    /\ response' = [kind |-> "response", status |-> fetched.res.status,
                    statusText |-> fetched.res.statusText,
                    headers |-> fetched.res.headers, body |-> fetched.res.body]
    /\ pc' = "done"
    /\ UNCHANGED <<entry, request, calls, route, followed, fetched, cookieArg, cookieRet>>

Next ==
    \/ \E e \in Entries, req \in Requests : Receive(e, req)
    \/ RouteApi
    \/ RouteStatic
    \/ RouteFetchThrough
    \/ \E res \in UpstreamResponses : ClientFollows(res)
    \/ \E res \in UpstreamResponses : FetchResolves(res)
    \/ FetchRejects
    \/ ReturnRedirect
    \/ ReturnRebuilt
    \/ ReturnThrough

Spec == Init /\ [][Next]_vars

-----------------------------------------------------------------------------
(* Properties of the handler (checked under Spec) *)

Done == pc = "done"
Responded == Done /\ response.kind = "response"

\* The request went to handleApiRequest, and fetch() resolved with a redirect answer
\* that the handler passed through.
PassedThrough == Responded /\ route = "api" /\ TakesRedirectBranch

\* The request went to handleApiRequest, which rebuilt the upstream's final answer.
Rebuilt == Responded /\ route = "api" /\ ~TakesRedirectBranch

\* C2: an upstream answer with a status in [300,400) and a Location is never followed
\* by the upstream client, and the outbound response has its status, status text and
\* whole header set, no body, no rewritten Set-Cookie and no added CORS header.
C2_RedirectPassedThroughNeverFollowed ==
    /\ route = "api" => followed = <<>>
    /\ (Responded /\ route = "api" /\ IsRedirect(fetched.res)) =>
          response = [kind |-> "response", status |-> fetched.res.status,
                      statusText |-> fetched.res.statusText,
                      headers |-> fetched.res.headers, body |-> "null"]

\* The inbound path without the matched prefix (the prefix less its closing "/").
PathLessPrefix == SubSeq(request.url.pathname, 3, Len(request.url.pathname))

\* "?" and the query string; nothing when the request has no query, as in the claim's
\* example (/fly-api/users is sent to <origin>/users).
QueryPart == IF request.url.query = <<>> THEN <<>> ELSE <<"?">> \o request.url.query

\* C3: for a request whose path matches the proxy prefix, the URL of the upstream call
\* is the backend origin, then the path with the matched prefix stripped, then "?" and
\* the query.
C3_UpstreamUrlStripsPrefix ==
    route = "api" =>
        calls[1].url = BackendOrigin(entry) \o PathLessPrefix \o QueryPart

\* C4: a request whose path does not start with /fly-api/ gets status 200 with the
\* fixed text, and no upstream call is made for it.
C4_FixedTextAndNoUpstreamCall ==
    (pc # "idle" /\ ~startsWith(request.url.pathname, <<"/", "fly-api", "/">>)) =>
        /\ calls = <<>>
        /\ Done =>
              /\ response.kind = "response"
              /\ response.status = 200
              /\ response.body
                   = "This is a proxy worker. API requests should be sent to /fly-api/..."

NonEmpty(cookie) == cookie # <<>>

UpstreamSetCookies == SelectSeq(HeadersGetAll(fetched.res.headers, "Set-Cookie"), NonEmpty)

\* C5: on the final path the outbound response has one Set-Cookie entry for each
\* non-empty upstream Set-Cookie value, in the upstream's order, the i-th being the
\* rewrite of the i-th value alone.
C5_OneRewrittenCookiePerUpstreamCookie ==
    Rebuilt =>
        LET out == HeadersGetAll(response.headers, "Set-Cookie") IN
        /\ Len(out) = Len(UpstreamSetCookies)
        /\ \A i \in 1..Len(out) : out[i] = modifyCookie(UpstreamSetCookies[i], request.url)
        /\ HeadersHas(response.headers, "Set-Cookie") <=> UpstreamSetCookies # <<>>

\* Witness of C5: two different non-empty upstream cookies have been rewritten into two
\* Set-Cookie entries.
C5_Witness ==
    /\ Rebuilt
    /\ Len(UpstreamSetCookies) = 2
    /\ UpstreamSetCookies[1] # UpstreamSetCookies[2]
    /\ Len(HeadersGetAll(fetched.res.headers, "Set-Cookie")) = 2
    /\ Len(HeadersGetAll(response.headers, "Set-Cookie")) = 2

HasCors(h, url) ==
    /\ HeadersGetAll(h, "Access-Control-Allow-Origin")
          = << <<url.protocol, "://">> \o
                 (IF url.port = "" THEN <<url.hostname>>
                                   ELSE <<url.hostname, ":", url.port>>) >>
    /\ HeadersGetAll(h, "Access-Control-Allow-Credentials") = << <<"true">> >>
    /\ HeadersGetAll(h, "Access-Control-Allow-Methods")
          = << <<"GET, POST, PUT, DELETE, OPTIONS">> >>
    /\ HeadersGetAll(h, "Access-Control-Allow-Headers")
          = << <<"Content-Type, Authorization">> >>

\* C6 as stated: every proxied response, for any method and any upstream status, has
\* the four CORS headers, whatever the upstream sent for them.
C6_CorsOnEveryProxiedResponse ==
    (Responded /\ route = "api") => HasCors(response.headers, request.url)

\* C6 amended: every proxied response that handleApiRequest rebuilds has the four CORS
\* headers, for any method and any upstream status, whatever the upstream sent for
\* them; the redirect pass-through (a 3xx with a Location, handleRequest variant) has
\* the upstream's headers only.
C6_CorsOnEveryRebuiltResponse ==
    /\ Rebuilt => HasCors(response.headers, request.url)
    /\ PassedThrough => response.headers = fetched.res.headers

\* Witness of C6: a preflight OPTIONS from an origin with a port, answered 500 by an
\* upstream that sent its own Access-Control-Allow-Origin, has been rebuilt.
C6_Witness ==
    /\ Rebuilt
    /\ request.method = "OPTIONS"
    /\ request.url.port # ""
    /\ fetched.res.status = 500
    /\ HeadersHas(fetched.res.headers, "Access-Control-Allow-Origin")

\* C8: the upstream call of a proxied request has the inbound method, every inbound
\* header with its values, and the inbound body.
C8_MethodHeadersBodyForwarded ==
    route = "api" =>
        /\ Len(calls) >= 1
        /\ calls[1].method = request.method
        /\ calls[1].headers = request.headers
        /\ calls[1].body = request.body

\* Witness of C8: a POST with Authorization, Cookie, Content-Type and a body has been
\* sent upstream.
C8_Witness ==
    /\ route = "api"
    /\ request.method = "POST"
    /\ DOMAIN request.headers = {"content-type", "authorization", "cookie"}
    /\ request.body # "null"
    /\ Len(calls) = 1

\* C10: when the upstream call fails, the handler still returns a response, of the 502
\* class, and the upstream call was made exactly once.
C10_UpstreamFailureAnswered502 ==
    (Done /\ route = "api" /\ fetched.kind = "rejected") =>
        /\ Len(calls) = 1
        /\ response.kind = "response"
        /\ response.status \in 500..599

\* The upstream answered the proxied request with a 3xx that has no Location header.
RedirectWithoutLocation ==
    /\ Responded
    /\ route = "api"
    /\ fetched.res.status \in 300..399
    /\ "location" \notin DOMAIN fetched.res.headers

\* C11: a 3xx upstream answer without a Location header is a final answer: the
\* outbound response has its status and its body, its Set-Cookie values rewritten by
\* modifyCookie, and the CORS headers, as for a non-3xx answer.
C11_RedirectWithoutLocationIsRebuilt ==
    RedirectWithoutLocation =>
        LET out == HeadersGetAll(response.headers, "Set-Cookie") IN
        /\ response.status = fetched.res.status
        /\ response.statusText = fetched.res.statusText
        /\ response.body = fetched.res.body
        /\ response.body # "null"
        /\ Len(out) = Len(UpstreamSetCookies)
        /\ \A i \in 1..Len(out) : out[i] = modifyCookie(UpstreamSetCookies[i], request.url)
        /\ HasCors(response.headers, request.url)

\* Witness of C11: the handleRequest variant has answered a 302 that has no Location
\* and carries two cookies.
C11_Witness ==
    /\ RedirectWithoutLocation
    /\ entry = "handleRequest"
    /\ fetched.res.status = 302
    /\ Len(UpstreamSetCookies) = 2
    /\ Len(HeadersGetAll(response.headers, "Set-Cookie")) = 2

====
